---- MODULE Spec2Model ----
(***************************************************************************)
(* Model of pyblish_qml/app.py: the client registry of Application, the    *)
(* listener thread started by Application.listen, the queued signal        *)
(* delivery to Application.show / hide / quit on the GUI thread, the       *)
(* readiness gate of show() and the close policy of Window.event.          *)
(***************************************************************************)
EXTENDS Integers, Sequences, FiniteSets, TLC

\* ------------------------------------------------------------------ bounds
MaxCalls == 4          \* register/deregister calls made in one run
MaxLines == 3          \* lines the host puts on the parent channel

Ports == {5000, 5001}

\* self.current_client = None
NoClient == 0

VARIABLES
    clients,           \* Application.clients: port -> [lastSeen]
    current_client,    \* Application.current_client
    calls,             \* history: the register/deregister calls made so far
    states,            \* controller.states, owned by the external state machine
    settings,          \* the settings module: WindowSize, WindowTitle
    window,            \* Application.window: visible, width, height, title
    listener,          \* the thread running _listen: "running" or "dead"
    readLog,           \* history: the lines _listen has taken off the channel
    queue,             \* signal emissions posted to the GUI thread, not yet delivered
    invoked,           \* history: the calls of show/hide/quit, in call order
    frames,            \* show() calls blocked in ready.wait(1000), innermost last
    proc,              \* "running", "quitting" (quit() called), "exited", "aborted"
    diag,              \* history: what was printed
    lastClose,         \* history: the last Close event seen by Window.event
    viewStatus         \* the status the window last reported through statusChanged

regVars == <<clients, current_client, calls>>
appVars == <<states, settings, window, listener, readLog, queue, invoked,
             frames, proc, diag, lastClose, viewStatus>>

\* --------------------------------------------------------------- registry
\* dict.pop(port) without a default
Without(d, port) == [p \in (DOMAIN d) \ {port} |-> d[p]]

Put(d, port, v) == [p \in (DOMAIN d) \cup {port} |-> IF p = port THEN v ELSE d[p]]

register_client(reg, port, now) ==
    [clients        |-> Put(reg.clients, port, [lastSeen |-> now]),
     current_client |-> port,
     result         |-> "ok"]

\* variants of deregister_client with a slip in them
deregister_client_get(reg, port) ==
    IF port \in DOMAIN reg.clients
    THEN [clients        |-> reg.clients,
          current_client |-> reg.current_client,
          result         |-> "ok"]
    ELSE [clients        |-> reg.clients,
          current_client |-> reg.current_client,
          result         |-> "KeyError"]

deregister_client_clears_current(reg, port) ==
    IF port \in DOMAIN reg.clients
    THEN [clients        |-> Without(reg.clients, port),
          current_client |-> IF reg.current_client = port THEN NoClient
                             ELSE reg.current_client,
          result         |-> "ok"]
    ELSE [clients        |-> reg.clients,
          current_client |-> reg.current_client,
          result         |-> "KeyError"]

deregister_client_default(reg, port) ==
    [clients        |-> Without(reg.clients, port),
     current_client |-> reg.current_client,
     result         |-> "ok"]

deregister_client(reg, port) ==
    IF port \in DOMAIN reg.clients
    THEN [clients        |-> Without(reg.clients, port),
          current_client |-> reg.current_client,
          result         |-> "ok"]
    ELSE [clients        |-> reg.clients,
          current_client |-> reg.current_client,
          result         |-> "KeyError"]

Registry == [clients |-> clients, current_client |-> current_client]

\* time.time() at the call: a logical clock, one tick per call
Now == Len(calls) + 1

Register(port) ==
    /\ Len(calls) < MaxCalls
    /\ LET r == register_client(Registry, port, Now) IN
        /\ clients' = r.clients
        /\ current_client' = r.current_client
        /\ calls' = Append(calls, [op |-> "register", port |-> port,
                                   result |-> r.result,
                                   fresh |-> port \notin DOMAIN clients])
    /\ UNCHANGED appVars

Deregister(port) ==
    /\ Len(calls) < MaxCalls
    /\ LET r == deregister_client(Registry, port) IN
        /\ clients' = r.clients
        /\ current_client' = r.current_client
        /\ calls' = Append(calls, [op |-> "deregister", port |-> port,
                                   result |-> r.result,
                                   fresh |-> FALSE])
    /\ UNCHANGED appVars

\* --------------------------------------------------------------- settings
Keys == {"WindowSize", "WindowTitle"}

\* a dict of options: the keys it carries and their values
Dict(keys, size, title) == [keys |-> keys, WindowSize |-> size, WindowTitle |-> title]

FullSettings == Dict({"WindowSize", "WindowTitle"}, <<800, 600>>, "Test")
TitleOnly    == Dict({"WindowTitle"}, <<0, 0>>, "A")
SizeOnly     == Dict({"WindowSize"}, <<640, 480>>, "")
EmptyDict    == Dict({}, <<0, 0>>, "")

\* the defaults of the settings module
DefaultSettings == [WindowSize |-> <<430, 600>>, WindowTitle |-> "Pyblish"]

\* settings.from_dict: set every option the incoming dict carries
from_dict(s, d) ==
    [WindowSize  |-> IF "WindowSize" \in d.keys THEN d.WindowSize ELSE s.WindowSize,
     WindowTitle |-> IF "WindowTitle" \in d.keys THEN d.WindowTitle ELSE s.WindowTitle]

\* Window.__init__: title and size from the settings module, not shown yet
NewWindow(s) ==
    [visible |-> FALSE, width |-> s.WindowSize[1], height |-> s.WindowSize[2],
     title |-> s.WindowTitle]

\* ------------------------------------------------------------- controller
StateSets == {{"publishing"}, {"ready"}, {"finished"}}

\* any(state in states for state in ("ready", "finished"))
\* variant: only "ready" counts
IsReady_ready_only(sts) == "ready" \in sts

IsReady(sts) == \E state \in {"ready", "finished"} : state \in sts

\* ----------------------------------------------------------- Window.event
\* variant: only "ready" lets the window close
CloseAccepted_ready_only(shift_pressed, sts) ==
    IF shift_pressed THEN TRUE
    ELSE IF "ready" \in sts THEN TRUE
    ELSE FALSE

CloseAccepted(shift_pressed, sts) ==
    IF shift_pressed THEN TRUE
    ELSE IF IsReady(sts) THEN TRUE
    ELSE FALSE

\* ------------------------------------------------------------------ lines
\* One line of the channel, by what json.loads makes of it.
Line(form, name, hasArgs, args) ==
    [form |-> form, name |-> name, hasArgs |-> hasArgs, args |-> args]

Lines ==
    { Line("malformed", "", FALSE, <<>>),           \* not JSON
      Line("nopayload", "", FALSE, <<>>),           \* {"other": 1}
      Line("noname", "", FALSE, <<>>),              \* {"payload": {}}
      Line("ok", "bogus", FALSE, <<>>),
      Line("ok", "show", FALSE, <<>>),
      Line("ok", "show", TRUE, <<FullSettings>>),
      Line("ok", "show", TRUE, <<TitleOnly>>),
      Line("ok", "show", TRUE, <<SizeOnly>>),
      Line("ok", "show", TRUE, <<EmptyDict>>),
      Line("ok", "hide", TRUE, <<>>),
      Line("ok", "hide", TRUE, <<FullSettings>>),
      Line("ok", "quit", FALSE, <<>>),
      Line("ok", "quit", TRUE, <<FullSettings>>) }

\* json.loads(line)["payload"] and payload["name"]
DecodeError(line) ==
    CASE line.form = "malformed" -> "ValueError"
      [] line.form = "nopayload" -> "KeyError"
      [] line.form = "noname"    -> "KeyError"
      [] OTHER                   -> "none"

\* {"show": "shown", "hide": "hidden", "quit": "quitted"}.get(name)
\* variant: a name outside the table falls back to a signal
SignalOf_default(name) ==
    CASE name = "show" -> "shown"
      [] name = "quit" -> "quitted"
      [] OTHER         -> "hidden"

SignalOf(name) ==
    CASE name = "show" -> "shown"
      [] name = "hide" -> "hidden"
      [] name = "quit" -> "quitted"
      [] OTHER         -> "None"

\* shown = pyqtSignal(QVariant); hidden = pyqtSignal(); quitted = pyqtSignal()
\* variant: every signal declared with one argument
Arity_all_one(signal) == 1

Arity(signal) == IF signal = "shown" THEN 1 ELSE 0

\* self.shown.connect(self.show) ...
SlotOf(signal) ==
    CASE signal = "shown"   -> "show"
      [] signal = "hidden"  -> "hide"
      [] signal = "quitted" -> "quit"

\* payload.get("args", [])
ArgsOf(line) == IF line.hasArgs THEN line.args ELSE <<>>

\* The connections are automatic: an emission from the thread the
\* application lives in calls the slot at once, one from another thread
\* is posted to the application's event queue.
\* variant: the slot is called by whoever emits
ConnectionKind_direct(emitter) == "direct"

ConnectionKind(emitter) == IF emitter = "main" THEN "direct" ELSE "queued"

\* The event queue is delivered first in, first out.
\* variant: last in, first out
Dequeue_last(q) == [msg |-> q[Len(q)], rest |-> SubSeq(q, 1, Len(q) - 1)]

Dequeue(q) == [msg |-> Head(q), rest |-> Tail(q)]

\* ------------------------------------------------------- Application.show
\* "if client_settings:" and the three window setters that follow it
\* variant: a show without settings falls back to the defaults
ApplySettings_defaults_when_empty(s, w, args) ==
    IF Len(args) = 0 \/ args[1].keys = {}
    THEN [settings |-> DefaultSettings,
          window |-> [w EXCEPT !.width = DefaultSettings.WindowSize[1],
                               !.height = DefaultSettings.WindowSize[2],
                               !.title = DefaultSettings.WindowTitle],
          raised |-> FALSE]
    ELSE LET cs == args[1] IN
         IF cs.keys # Keys
         THEN [settings |-> from_dict(s, cs), window |-> w, raised |-> TRUE]
         ELSE [settings |-> from_dict(s, cs),
               window |-> [w EXCEPT !.width = cs.WindowSize[1],
                                    !.height = cs.WindowSize[2],
                                    !.title = cs.WindowTitle],
               raised |-> FALSE]

\* variant: the options are looked up before anything is stored
ApplySettings_validate_first(s, w, args) ==
    IF Len(args) = 0 \/ args[1].keys = {}
    THEN [settings |-> s, window |-> w, raised |-> FALSE]
    ELSE LET cs == args[1] IN
         IF cs.keys # Keys
         THEN [settings |-> s, window |-> w, raised |-> TRUE]
         ELSE [settings |-> from_dict(s, cs),
               window |-> [w EXCEPT !.width = cs.WindowSize[1],
                                    !.height = cs.WindowSize[2],
                                    !.title = cs.WindowTitle],
               raised |-> FALSE]

ApplySettings(s, w, args) ==
    IF Len(args) = 0 \/ args[1].keys = {}
    THEN [settings |-> s, window |-> w, raised |-> FALSE]
    ELSE LET cs == args[1]
             s1 == from_dict(s, cs)
         IN  IF "WindowSize" \notin cs.keys
             THEN [settings |-> s1, window |-> w, raised |-> TRUE]
             ELSE LET w1 == [w EXCEPT !.width = cs.WindowSize[1],
                                      !.height = cs.WindowSize[2]]
                  IN  IF "WindowTitle" \notin cs.keys
                      THEN [settings |-> s1, window |-> w1, raised |-> TRUE]
                      ELSE [settings |-> s1,
                            window |-> [w1 EXCEPT !.title = cs.WindowTitle],
                            raised |-> FALSE]

\* what show() does once the gate is behind it
AfterGate(steps) == steps \o <<"show.emit", "reset">>

Call(idx, name, args, thread, steps, status, gate) ==
    [idx |-> idx, name |-> name, args |-> args, thread |-> thread,
     steps |-> steps, status |-> status, gate |-> gate]

show(thread, idx, args) ==
    LET a == ApplySettings(settings, window, args) IN
    /\ settings' = a.settings
    /\ IF a.raised
       THEN /\ window' = a.window
            /\ invoked' = Append(invoked,
                    Call(idx, "show", args, thread, <<>>, "raised", "none"))
            /\ frames' = frames
            \* an exception leaving a slot: printed, or fatal to the process
            /\ \E fatal \in BOOLEAN : proc' = IF fatal THEN "aborted" ELSE proc
       ELSE /\ window' = [a.window EXCEPT !.visible = TRUE]
            /\ proc' = proc
            /\ IF IsReady(states)
               THEN /\ invoked' = Append(invoked,
                            Call(idx, "show", args, thread,
                                 AfterGate(<<"activate">>), "returned", "skipped"))
                    /\ frames' = frames
               ELSE /\ invoked' = Append(invoked,
                            Call(idx, "show", args, thread,
                                 <<"activate">>, "waiting", "none"))
                    /\ frames' = Append(frames, Len(invoked) + 1)
    /\ UNCHANGED diag

\* ready.wait(1000) returns: the notification came, or it did not
\* variant: a timeout ends show() there and then
GateEnd_abort_on_timeout(call, arrived) ==
    IF arrived
    THEN [call EXCEPT !.steps = call.steps \o <<"show.emit", "reset">>,
                      !.status = "returned", !.gate = "arrived"]
    ELSE [call EXCEPT !.status = "returned", !.gate = "timeout"]

GateEnd(call, arrived) ==
    [call EXCEPT !.steps = AfterGate(call.steps),
                 !.status = "returned",
                 !.gate = IF arrived THEN "arrived" ELSE "timeout"]

ShowGateEnd(arrived) ==
    /\ frames # <<>>
    /\ proc \in {"running", "quitting"}
    /\ LET n == frames[Len(frames)] IN
        /\ invoked' = [invoked EXCEPT ![n] = GateEnd(invoked[n], arrived)]
        /\ diag' = IF arrived THEN diag
                   ELSE Append(diag, [idx |-> invoked[n].idx, kind |-> "not-ready"])
    /\ frames' = SubSeq(frames, 1, Len(frames) - 1)
    /\ UNCHANGED <<states, settings, window, listener, readLog, queue, proc,
                   lastClose>>
    /\ UNCHANGED regVars
    /\ UNCHANGED viewStatus

\* ------------------------------------------------------- Application.hide
\* variant: hiding puts the window back as it was built
hide_resets_window(thread, idx, args) ==
    /\ window' = NewWindow(DefaultSettings)
    /\ invoked' = Append(invoked,
            Call(idx, "hide", args, thread, <<"hide">>, "returned", "none"))
    /\ UNCHANGED <<settings, frames, proc, diag>>

hide(thread, idx, args) ==
    /\ window' = [window EXCEPT !.visible = FALSE]
    /\ invoked' = Append(invoked,
            Call(idx, "hide", args, thread, <<"hide">>, "returned", "none"))
    /\ UNCHANGED <<settings, frames, proc, diag>>

\* ------------------------------------------------------- Application.quit
\* variant: quit waits for the controller like a close request does
quit_gated(thread, idx, args) ==
    /\ proc' = IF proc = "running" /\ IsReady(states) THEN "quitting" ELSE proc
    /\ invoked' = Append(invoked,
            Call(idx, "quit", args, thread, <<"quit">>, "returned", "none"))
    /\ UNCHANGED <<settings, window, frames, diag>>

quit(thread, idx, args) ==
    /\ proc' = IF proc = "running" THEN "quitting" ELSE proc
    /\ invoked' = Append(invoked,
            Call(idx, "quit", args, thread, <<"quit">>, "returned", "none"))
    /\ UNCHANGED <<settings, window, frames, diag>>

Invoke(thread, slot, idx, args) ==
    CASE slot = "show" -> show(thread, idx, args)
      [] slot = "hide" -> hide(thread, idx, args)
      [] slot = "quit" -> quit(thread, idx, args)

\* --------------------------------------------------------------- _listen
Listen(line) ==
    /\ listener = "running"
    /\ proc \in {"running", "quitting"}
    /\ Len(readLog) < MaxLines
    /\ readLog' = Append(readLog, line)
    /\ LET idx    == Len(readLog) + 1
           signal == SignalOf(line.name)
           args   == ArgsOf(line)
       IN
       IF DecodeError(line) # "none"
       THEN \* nothing in the loop catches it: the thread ends
            /\ listener' = "dead"
            /\ diag' = Append(diag, [idx |-> idx, kind |-> DecodeError(line)])
            /\ UNCHANGED <<settings, window, queue, invoked, frames, proc>>
       ELSE IF signal = "None"
       THEN /\ diag' = Append(diag, [idx |-> idx, kind |-> "unavailable"])
            /\ UNCHANGED <<settings, window, listener, queue, invoked, frames, proc>>
       ELSE IF Len(args) # Arity(signal)
       THEN \* emit() raises TypeError, caught by the except clause
            /\ diag' = Append(diag, [idx |-> idx, kind |-> "TypeError"])
            /\ UNCHANGED <<settings, window, listener, queue, invoked, frames, proc>>
       ELSE IF ConnectionKind("listener") = "queued"
       THEN /\ queue' = Append(queue, [idx |-> idx, slot |-> SlotOf(signal),
                                       args |-> args])
            /\ UNCHANGED <<settings, window, listener, invoked, frames, proc, diag>>
       ELSE /\ Invoke("listener", SlotOf(signal), idx, args)
            /\ UNCHANGED <<listener, queue>>
    /\ UNCHANGED <<states, lastClose>>
    /\ UNCHANGED regVars
    /\ UNCHANGED viewStatus

\* The GUI thread's event loop (the main one, or the one inside
\* ready.wait) delivers the oldest posted emission to its slot.
Dispatch ==
    /\ queue # <<>>
    /\ proc = "running"
    /\ LET d == Dequeue(queue) IN
        /\ queue' = d.rest
        /\ Invoke("main", d.msg.slot, d.msg.idx, d.msg.args)
    /\ UNCHANGED <<states, listener, readLog, lastClose>>
    /\ UNCHANGED regVars
    /\ UNCHANGED viewStatus

\* A Close event reaches Window.event
CloseEvent(shift_pressed) ==
    /\ proc = "running"
    /\ window.visible
    /\ LET accepted == CloseAccepted(shift_pressed, states) IN
        /\ lastClose' = [seen |-> TRUE, tick |-> ~lastClose.tick,
                         shift |-> shift_pressed, accepted |-> accepted]
        /\ window' = [window EXCEPT !.visible = ~accepted]
    /\ UNCHANGED <<states, settings, listener, readLog, queue, invoked,
                   frames, proc, diag>>
    /\ UNCHANGED regVars
    /\ UNCHANGED viewStatus

\* The state machine moves on its own
ControllerStep(sts) ==
    /\ proc = "running"
    /\ sts # states
    /\ states' = sts
    /\ UNCHANGED <<settings, window, listener, readLog, queue, invoked,
                   frames, proc, diag, lastClose>>
    /\ UNCHANGED regVars
    /\ UNCHANGED viewStatus

\* app.exec_() returns once quit() was called and every slot has returned
Exit ==
    /\ proc = "quitting"
    /\ frames = <<>>
    /\ proc' = "exited"
    /\ UNCHANGED <<states, settings, window, listener, readLog, queue, invoked,
                   frames, diag, lastClose>>
    /\ UNCHANGED regVars
    /\ UNCHANGED viewStatus

\* ------------------------------------------- Application.on_status_changed
\* QQuickView.Status
Statuses == {"Null", "Ready", "Loading", "Error"}

\* variant: anything but Ready ends the application
on_status_changed_not_ready(st) == st # "Ready"

\* whether the handler calls self.quit()
on_status_changed(st) == st = "Error"

\* window.statusChanged is emitted on the GUI thread and calls the handler
OnStatusChanged(st) ==
    /\ proc = "running"
    /\ st # viewStatus
    /\ viewStatus' = st
    /\ IF on_status_changed(st)
       THEN quit("main", 0, <<>>)
       ELSE UNCHANGED <<settings, window, invoked, frames, proc, diag>>
    /\ UNCHANGED <<states, listener, readLog, queue, lastClose>>
    /\ UNCHANGED regVars

\* ------------------------------------------------------------------ specs
vars == <<clients, current_client, calls, states, settings, window, listener,
          readLog, queue, invoked, frames, proc, diag, lastClose, viewStatus>>

Init ==
    /\ clients = <<>>
    /\ current_client = NoClient
    /\ calls = <<>>
    /\ states \in StateSets
    /\ settings = DefaultSettings
    /\ window = NewWindow(DefaultSettings)
    /\ listener = "running"
    /\ readLog = <<>>
    /\ queue = <<>>
    /\ invoked = <<>>
    /\ frames = <<>>
    /\ proc = "running"
    /\ diag = <<>>
    /\ lastClose = [seen |-> FALSE, tick |-> FALSE, shift |-> FALSE,
                    accepted |-> FALSE]
    /\ viewStatus = "Ready"

NextRegistry ==
    \/ \E port \in Ports : Register(port)
    \/ \E port \in Ports : Deregister(port)

SpecRegistry == Init /\ [][NextRegistry]_vars

Next ==
    \/ \E line \in Lines : Listen(line)
    \/ Dispatch
    \/ \E arrived \in BOOLEAN : ShowGateEnd(arrived)
    \/ \E sts \in StateSets : ControllerStep(sts)
    \/ Exit

Spec == Init /\ [][Next]_vars

\* The window under close requests: the host shows and hides it while the
\* user asks to close it.
WindowLines ==
    { Line("ok", "show", TRUE, <<FullSettings>>),
      Line("ok", "hide", FALSE, <<>>) }

NextWindow ==
    \/ \E line \in WindowLines : Listen(line)
    \/ Dispatch
    \/ \E arrived \in BOOLEAN : ShowGateEnd(arrived)
    \/ \E shift_pressed \in BOOLEAN : CloseEvent(shift_pressed)
    \/ \E sts \in StateSets : ControllerStep(sts)
    \/ \E st \in Statuses : OnStatusChanged(st)
    \/ Exit

SpecWindow == Init /\ [][NextWindow]_vars

\* Shows with and without settings while clients come and go.
ShowLines ==
    { Line("ok", "show", TRUE, <<FullSettings>>),
      Line("ok", "show", TRUE, <<EmptyDict>>) }

\* the one client that comes and goes meanwhile
ShowPorts == {5000}

NextShow ==
    \/ \E line \in ShowLines : Listen(line)
    \/ Dispatch
    \/ \E arrived \in BOOLEAN : ShowGateEnd(arrived)
    \/ \E port \in ShowPorts : Register(port)
    \/ \E port \in ShowPorts : Deregister(port)

SpecShow == Init /\ [][NextShow]_vars

\* ----------------------------------------------------------------- claims
Indices(seq) == 1..Len(seq)

Count(seq, P(_)) == Cardinality({i \in Indices(seq) : P(seq[i])})

IsRegister(c)      == c.op = "register"
IsFreshRegister(c) == c.op = "register" /\ c.fresh
IsDeregisterOk(c)  == c.op = "deregister" /\ c.result = "ok"

\* a line that decodes and names one of the three actions
Dispatchable(line) ==
    DecodeError(line) = "none" /\ line.name \in {"show", "hide", "quit"}

\* C1: the listener never terminates because of a bad message: whatever
\* lines it has read, the thread is still in its read loop.
C1_ListenerNeverTerminates == listener = "running"

\* C2: dispatch totality: once the event queue has drained, every line
\* read that decodes and is named show, hide or quit (args absent or empty
\* included) has exactly one call of its action, with its args.
C2_DispatchTotality ==
    (queue = <<>> /\ proc = "running") =>
        \A i \in Indices(readLog) :
            Dispatchable(readLog[i]) =>
                Cardinality({j \in Indices(invoked) :
                                /\ invoked[j].idx = i
                                /\ invoked[j].name = readLog[i].name
                                /\ invoked[j].args = ArgsOf(readLog[i])}) = 1

\* C3: a close request is accepted if Shift is held, otherwise iff the
\* controller's states contain ready or finished; in every other case it
\* is ignored and the window stays as it was, open.
C3_ClosePolicy ==
    [][lastClose' # lastClose =>
          /\ lastClose'.accepted <=>
                \/ lastClose'.shift
                \/ "ready" \in states
                \/ "finished" \in states
          /\ ~lastClose'.accepted => (window' = window /\ window'.visible)
          /\ lastClose'.accepted => ~window'.visible]_vars

C3_Witness ==
    /\ lastClose.seen /\ ~lastClose.accepted /\ ~lastClose.shift
    /\ window.visible
    /\ states = {"publishing"}

\* C4: the readiness gate never aborts show: a show() that has activated
\* the window is either still waiting at the gate, with nothing done after
\* the activation, or has returned having activated the window, emitted
\* controller.show and called controller.reset(), in that order - whatever
\* the controller's state was and whether or not ready arrived in time.
C4_GateNeverAborts ==
    /\ [](\A j \in Indices(invoked) :
            (invoked[j].name = "show" /\ invoked[j].status # "raised") =>
                \/ /\ invoked[j].status = "waiting"
                   /\ invoked[j].steps = <<"activate">>
                   /\ \E k \in Indices(frames) : frames[k] = j
                \/ /\ invoked[j].status = "returned"
                   /\ invoked[j].steps = <<"activate", "show.emit", "reset">>
                   /\ invoked[j].gate \in {"skipped", "arrived", "timeout"}
                   /\ \A k \in Indices(frames) : frames[k] # j)
    /\ [][(/\ Len(invoked') = Len(invoked) + 1
            /\ invoked'[Len(invoked')].name = "show"
            /\ invoked'[Len(invoked')].status # "raised") =>
                window'.visible]_vars

C4_Witness ==
    \E j \in Indices(invoked) :
        /\ invoked[j].name = "show"
        /\ invoked[j].status = "returned"
        /\ invoked[j].gate = "timeout"

\* C5: actions are called in the order their lines were read.
C5_ReadOrder ==
    \A j, k \in Indices(invoked) :
        j < k => invoked[j].idx < invoked[k].idx

C5_Witness ==
    /\ Len(invoked) >= 2
    /\ invoked[1].name # invoked[2].name
    /\ Len(readLog) = 3
    /\ invoked[2].idx = 3

\* C6: every action runs on the GUI thread, and a step of the listener
\* thread changes neither the window, nor the settings, nor the registry,
\* nor does it call an action.
C6_SingleWriter ==
    /\ [](\A j \in Indices(invoked) : invoked[j].thread = "main")
    /\ [][readLog' # readLog =>
            /\ invoked' = invoked
            /\ window' = window
            /\ settings' = settings
            /\ clients' = clients
            /\ current_client' = current_client]_vars

C6_Witness ==
    /\ Len(invoked) >= 1
    /\ invoked[1].name = "show"
    /\ window.visible
    /\ settings = [WindowSize |-> <<800, 600>>, WindowTitle |-> "Test"]

\* C7: show() with a settings object carrying only some of the options
\* succeeds (and merges field by field).
C7_PartialSettingsSucceed ==
    \A j \in Indices(invoked) :
        (invoked[j].name = "show" /\ Len(invoked[j].args) = 1) =>
            invoked[j].status # "raised"

\* C8 as stated: the size of the registry is the number of register calls
\* minus the number of successful deregister calls.
C8_SizeIsRegistersMinusDeregisters ==
    Cardinality(DOMAIN clients) =
        Count(calls, IsRegister) - Count(calls, IsDeregisterOk)

\* C8, amended: the size of the registry is the number of register calls
\* for a port not in the registry at the time, minus the number of
\* successful deregister calls.
C8_SizeIsFreshRegistersMinusDeregisters ==
    Cardinality(DOMAIN clients) =
        Count(calls, IsFreshRegister) - Count(calls, IsDeregisterOk)

C8_Witness ==
    /\ Count(calls, IsRegister) > Count(calls, IsFreshRegister)
    /\ Count(calls, IsDeregisterOk) > 0
    /\ Cardinality(DOMAIN clients) = 1

RegisterCalls == {i \in Indices(calls) : IsRegister(calls[i])}

\* C9: once a register call has been made, current_client is the port of
\* the most recent one, whatever deregister calls came after it.
C9_CurrentIsLastRegistered ==
    RegisterCalls # {} =>
        \E i \in RegisterCalls :
            /\ \A k \in RegisterCalls : k <= i
            /\ current_client = calls[i].port

C9_Witness ==
    /\ current_client # NoClient
    /\ current_client \notin DOMAIN clients
    /\ Len(calls) >= 2
    /\ calls[Len(calls)].op = "deregister"
    /\ calls[Len(calls)].port = current_client
    /\ calls[Len(calls)].result = "ok"

\* C10: deregister of a port that is not in the registry fails with a
\* KeyError and leaves the registry and current_client as they were.
C10_DeregisterAbsent ==
    [][(/\ Len(calls') = Len(calls) + 1
        /\ calls'[Len(calls')].op = "deregister"
        /\ calls'[Len(calls')].port \notin DOMAIN clients) =>
            /\ calls'[Len(calls')].result = "KeyError"
            /\ clients' = clients
            /\ current_client' = current_client]_vars

C10_Witness ==
    \E i, k \in Indices(calls) :
        /\ i < k
        /\ calls[i].op = "deregister" /\ calls[i].result = "ok"
        /\ calls[k].op = "deregister" /\ calls[k].result = "KeyError"
        /\ calls[i].port = calls[k].port
        /\ \A m \in (i + 1)..(k - 1) : calls[m].port # calls[i].port

\* C11: a line that decodes and whose name is not show, hide or quit never
\* reaches an action: the step that reads it posts nothing to the GUI
\* thread and calls nothing, prints the "unavailable" diagnostic, and the
\* listener stays in its loop; no action is ever called for that line.
C11_UnknownNameDropped ==
    /\ [][(/\ Len(readLog') = Len(readLog) + 1
           /\ readLog'[Len(readLog')].form = "ok"
           /\ readLog'[Len(readLog')].name \notin {"show", "hide", "quit"}) =>
                /\ queue' = queue
                /\ invoked' = invoked
                /\ diag' = Append(diag, [idx |-> Len(readLog'),
                                         kind |-> "unavailable"])
                /\ listener' = "running"]_vars
    /\ [](\A i \in Indices(readLog) :
            (readLog[i].form = "ok"
             /\ readLog[i].name \notin {"show", "hide", "quit"}) =>
                /\ \A j \in Indices(invoked) : invoked[j].idx # i
                /\ \A k \in Indices(queue) : queue[k].idx # i)

\* an unknown name was read first, and a later valid command was called
C11_Witness ==
    /\ Len(readLog) >= 2
    /\ readLog[1].name = "bogus"
    /\ diag # <<>> /\ diag[1] = [idx |-> 1, kind |-> "unavailable"]
    /\ Len(invoked) = 1
    /\ invoked[1].idx = 2
    /\ invoked[1].name = "show"

Warned(call) ==
    \E d \in Indices(diag) :
        diag[d] = [idx |-> call.idx, kind |-> "not-ready"]

\* C13: show() prints "Could not enter ready state" iff it waited at the
\* gate and the wait ended without the ready notification; it waits iff
\* the controller's states contain neither ready nor finished when it
\* gets to the gate, and otherwise goes on without waiting or warning.
C13_WarningIffTimeout ==
    /\ [](\A j \in Indices(invoked) :
            invoked[j].name = "show" =>
                (Warned(invoked[j]) <=> invoked[j].gate = "timeout"))
    /\ [][(/\ Len(invoked') = Len(invoked) + 1
           /\ invoked'[Len(invoked')].name = "show"
           /\ invoked'[Len(invoked')].status # "raised") =>
                IF "ready" \in states \/ "finished" \in states
                THEN /\ invoked'[Len(invoked')].gate = "skipped"
                     /\ invoked'[Len(invoked')].status = "returned"
                     /\ frames' = frames
                     /\ diag' = diag
                ELSE /\ invoked'[Len(invoked')].gate = "none"
                     /\ invoked'[Len(invoked')].status = "waiting"
                     /\ frames' = Append(frames, Len(invoked'))
                     /\ diag' = diag]_vars

\* one show waited and was warned, another waited and was not
C13_Witness ==
    \E j, k \in Indices(invoked) :
        /\ invoked[j].gate = "timeout" /\ Warned(invoked[j])
        /\ invoked[k].gate = "arrived" /\ ~Warned(invoked[k])

\* show() was given nothing to apply: no argument, or an empty dict
NoSettings(args) == Len(args) = 0 \/ args[1].keys = {}

\* C14: hide() changes the window's visibility and nothing else: the
\* settings, the window's title and size, the controller's states and the
\* registry are as before and the process keeps running; and when the
\* last three calls were show(s) with both options, hide(), and a show
\* without settings, the window is visible with the title and size of s.
C14_HideOnlyHides ==
    /\ [][(/\ Len(invoked') = Len(invoked) + 1
           /\ invoked'[Len(invoked')].name = "hide") =>
                /\ window' = [window EXCEPT !.visible = FALSE]
                /\ settings' = settings
                /\ states' = states
                /\ clients' = clients
                /\ current_client' = current_client
                /\ frames' = frames
                /\ proc' = proc
                /\ proc' = "running"]_vars
    /\ [](\A j \in Indices(invoked) :
            (/\ j + 2 = Len(invoked)
             /\ invoked[j].name = "show"
             /\ Len(invoked[j].args) = 1
             /\ invoked[j].args[1].keys = Keys
             /\ invoked[j + 1].name = "hide"
             /\ invoked[j + 2].name = "show"
             /\ NoSettings(invoked[j + 2].args)) =>
                /\ window.visible
                /\ window.title = invoked[j].args[1].WindowTitle
                /\ window.width = invoked[j].args[1].WindowSize[1]
                /\ window.height = invoked[j].args[1].WindowSize[2]
                /\ settings.WindowTitle = invoked[j].args[1].WindowTitle
                /\ settings.WindowSize = invoked[j].args[1].WindowSize)

C14_Witness ==
    /\ Len(invoked) = 3
    /\ invoked[1].name = "show" /\ invoked[1].args = <<FullSettings>>
    /\ invoked[2].name = "hide"
    /\ invoked[3].name = "show" /\ NoSettings(invoked[3].args)
    /\ invoked[3].status = "returned"
    /\ window.visible /\ window.title = "Test"

\* a known name whose args do not fit the signal it maps to
ArityMismatch(line) ==
    /\ line.form = "ok"
    /\ \/ line.name = "show" /\ Len(ArgsOf(line)) = 0
       \/ line.name \in {"hide", "quit"} /\ Len(ArgsOf(line)) > 0

\* C15: for a show without args, or a hide or quit with args, the emit
\* fails in the listener and is caught there: the step that reads the
\* line posts and calls nothing, prints the traceback, and leaves the
\* listener running; no action is ever called for that line.
C15_ArityMismatchCaught ==
    /\ [][(/\ Len(readLog') = Len(readLog) + 1
           /\ ArityMismatch(readLog'[Len(readLog')])) =>
                /\ queue' = queue
                /\ invoked' = invoked
                /\ diag' = Append(diag, [idx |-> Len(readLog'),
                                         kind |-> "TypeError"])
                /\ listener' = "running"]_vars
    /\ [](\A i \in Indices(readLog) :
            ArityMismatch(readLog[i]) =>
                /\ \A j \in Indices(invoked) : invoked[j].idx # i
                /\ \A k \in Indices(queue) : queue[k].idx # i)

\* a quit with args was dropped, and the line after it was read and called
C15_Witness ==
    /\ Len(readLog) >= 2
    /\ readLog[1].name = "quit" /\ ArityMismatch(readLog[1])
    /\ proc = "running"
    /\ Len(invoked) = 1
    /\ invoked[1].idx = 2
    /\ invoked[1].name = "hide"

\* show() was given a non-empty dict that lacks WindowSize or WindowTitle
PartialSettings(args) ==
    Len(args) = 1 /\ args[1].keys # {} /\ args[1].keys # Keys

\* C16: show() with a non-empty settings object lacking WindowSize or
\* WindowTitle fails before the window is activated: the call raises with
\* no step done (no activation, no show signal, no reset, no wait), the
\* window's visibility is what it was, and yet the settings now carry the
\* options that were supplied.
C16_PartialSettingsFailAfterMerge ==
    /\ [][(/\ Len(invoked') = Len(invoked) + 1
           /\ invoked'[Len(invoked')].name = "show"
           /\ PartialSettings(invoked'[Len(invoked')].args)) =>
                LET cs == invoked'[Len(invoked')].args[1] IN
                /\ invoked'[Len(invoked')].status = "raised"
                /\ invoked'[Len(invoked')].steps = <<>>
                /\ frames' = frames
                /\ diag' = diag
                /\ window'.visible = window.visible
                /\ settings'.WindowSize =
                        IF "WindowSize" \in cs.keys THEN cs.WindowSize
                        ELSE settings.WindowSize
                /\ settings'.WindowTitle =
                        IF "WindowTitle" \in cs.keys THEN cs.WindowTitle
                        ELSE settings.WindowTitle]_vars
    /\ [](\A j \in Indices(invoked) :
            (invoked[j].name = "show" /\ PartialSettings(invoked[j].args)) =>
                invoked[j].status = "raised" /\ invoked[j].steps = <<>>)

C16_Witness ==
    /\ Len(invoked) = 1
    /\ invoked[1].name = "show"
    /\ invoked[1].args = <<TitleOnly>>
    /\ invoked[1].status = "raised"
    /\ ~window.visible
    /\ window.title = "Pyblish"
    /\ settings = [WindowSize |-> <<430, 600>>, WindowTitle |-> "A"]

\* C17: show() with no settings or an empty settings object leaves the
\* settings and the window's title and size as they were, and leaves the
\* registry and current_client alone.
C17_ShowWithoutSettings ==
    [][(/\ Len(invoked') = Len(invoked) + 1
        /\ invoked'[Len(invoked')].name = "show"
        /\ NoSettings(invoked'[Len(invoked')].args)) =>
            /\ settings' = settings
            /\ window'.title = window.title
            /\ window'.width = window.width
            /\ window'.height = window.height
            /\ clients' = clients
            /\ current_client' = current_client
            /\ calls' = calls]_vars

\* such a show came after a show with settings, with a client registered
C17_Witness ==
    /\ Len(invoked) >= 2
    /\ invoked[Len(invoked)].name = "show"
    /\ invoked[Len(invoked)].args = <<EmptyDict>>
    /\ invoked[Len(invoked)].status = "returned"
    /\ settings = [WindowSize |-> <<800, 600>>, WindowTitle |-> "Test"]
    /\ window.title = "Test" /\ window.width = 800
    /\ DOMAIN clients # {}
    /\ current_client # NoClient

====
